---- MODULE Spec2Model ----
(***************************************************************************)
(* Model of the translation cache of the Translation cog                   *)
(* (src/cogs/translate/cache.py): an OrderedDict of CacheEntry values      *)
(* with LRU eviction, TTL expiry and hit/miss/eviction counters.           *)
(*                                                                         *)
(* Every coroutine of TranslationCache takes the asyncio lock, runs a body *)
(* without any await, and releases the lock; get_stats and reset_stats are *)
(* plain synchronous methods.  On the single-threaded event loop each call *)
(* therefore runs from start to end without interleaving, and is one       *)
(* action in Spec, SpecLru, SpecFill, SpecStats, SpecCleanup and          *)
(* SpecAnySize.  SpecLock shows the lock: a call of a task is two steps,   *)
(* taking the lock and running the body, and Translation._do_translate     *)
(* (src/cogs/translate/main.py) is the flow get, translator.translate      *)
(* (src/cogs/translate/translator.py), set; SpecLockFair adds the fairness *)
(* of the event loop; SpecFlow and SpecRace have tasks that only call     *)
(* _do_translate.  SpecNorm applies Translator.normalize_language.         *)
(***************************************************************************)
EXTENDS Integers, Sequences, FiniteSets

\* ------------------------------------------------------------------ bounds

\* Largest max_size a cache is constructed with.
MaxSize == 3
\* Last value of the clock (seconds).
MaxTime == 2
\* The default_ttl the cache is constructed with (seconds).
DefaultTtl == 1
\* Number of cache calls in one run of Spec.
MaxOps == 3
\* Number of cache calls in one run of SpecLru.
MaxLruOps == 6
\* Number of cache calls in one run of SpecFill.
MaxFillOps == 4
\* Number of cache calls in one run of SpecStats.
MaxStatsOps == 4
\* Number of cache calls in one run of SpecLock.
MaxLockOps == 4
\* Number of cache calls in one run of SpecLockFair.
MaxFairOps == 2
\* Number of cache calls in one run of SpecFlow.
MaxFlowOps == 3
\* Number of cache calls in one run of SpecRace.
MaxRaceOps == 4
\* Number of cache calls in one run of SpecCleanup.
MaxCleanupOps == 4
\* Number of normalize_language calls in one run of SpecNorm.
MaxNormOps == 2

\* ------------------------------------------------------------------ inputs

Texts == {"Hola", "Adios"}
Languages == {"en", "fr"}
\* (translated_text, source_language) of a set call
Results == {<<"Hello", "auto">>, <<"Hi", "es">>}

\* Optional[...]: None is the empty sequence, a value is a one-element one.
None == <<>>
Some(x) == <<x>>

\* The ttl of a set call: not given, or an explicit 0 (never expires).
TtlArgs == {None, Some(0)}

\* The tasks of the event loop.
Tasks == {"t1", "t2"}
\* The texts handed to _do_translate: plain, with a custom emoji, a custom
\* emoji alone, empty, and blank.
RawTexts == {"Hola", "<:wave:1> Hola", "<:wave:1>", "", "  "}

VARIABLES
    max_size,     \* self.max_size
    default_ttl,  \* self.default_ttl
    cache,        \* self._cache: sequence of [key, entry], oldest first
    hits,         \* self._hits
    misses,       \* self._misses
    evictions,    \* self._evictions
    now,          \* time.time()
    last,         \* the call that completed last: arguments, branch, result
    ops,          \* number of calls completed
    touch,        \* history: stored keys, least recently touched first
    gets,         \* history: get calls completed since the last reset_stats
    lock,         \* self._lock: None, or the task that holds it
    pc            \* where each task is

vars == <<max_size, default_ttl, cache, hits, misses, evictions, now, last,
          ops, touch, gets, lock, pc>>

\* --------------------------------------------------------- pure functions

\* hashlib.sha256(text.encode("utf-8")).hexdigest(): the digest of each text
\* of the model (first hex digits), distinct texts having distinct digests.
Sha256(text) ==
    CASE text = "Hola" -> "e633f4fc"
      [] text = "Adios" -> "44093600"
      [] OTHER -> "00000000"

\* TranslationCache._make_key: f"{target_language}:{text_hash}"
make_key(text, target_language) == <<target_language, Sha256(text)>>

\* Variant of CacheEntry: the source language is not passed on and stays at
\* the default of set.
CacheEntryAutoSource(translated_text, source_language, target_language, timestamp, ttl) ==
    [translated_text |-> translated_text,
     source_language |-> "auto",
     target_language |-> target_language,
     timestamp |-> timestamp,
     ttl |-> ttl]

\* CacheEntry(...)
CacheEntry(translated_text, source_language, target_language, timestamp, ttl) ==
    [translated_text |-> translated_text,
     source_language |-> source_language,
     target_language |-> target_language,
     timestamp |-> timestamp,
     ttl |-> ttl]

\* Variant of is_expired: the entry expires as soon as its ttl has elapsed.
is_expired_at_ttl(entry, t) ==
    IF entry.ttl <= 0 THEN FALSE ELSE (t - entry.timestamp) >= entry.ttl

\* CacheEntry.is_expired at clock value t
is_expired(entry, t) ==
    IF entry.ttl <= 0 THEN FALSE ELSE (t - entry.timestamp) > entry.ttl

\* ------------------------------------------------- OrderedDict operations

\* the keys of an OrderedDict
Keys(c) == {c[i].key : i \in 1..Len(c)}

\* key in self._cache
Has(c, key) == key \in Keys(c)

\* position of a stored key
IndexOf(c, key) == CHOOSE i \in 1..Len(c) : c[i].key = key

\* self._cache[key]
Lookup(c, key) == c[IndexOf(c, key)].entry

\* del self._cache[key]
Delete(c, key) == SelectSeq(c, LAMBDA x : x.key # key)

\* Variant of MoveToEnd: the entry stays where it is.
MoveToEndSkipped(c, key) == c

\* self._cache.move_to_end(key)
MoveToEnd(c, key) == Append(Delete(c, key), c[IndexOf(c, key)])

\* Variant of Store: the entry of a stored key is kept.
StoreIfAbsent(c, key, entry) ==
    IF Has(c, key) THEN c ELSE Append(c, [key |-> key, entry |-> entry])

\* self._cache[key] = entry: a stored key keeps its position, a new key is
\* added at the end
Store(c, key, entry) ==
    IF Has(c, key)
    THEN [c EXCEPT ![IndexOf(c, key)] = [key |-> key, entry |-> entry]]
    ELSE Append(c, [key |-> key, entry |-> entry])

\* Variant of FirstKey: the newest key instead of the oldest.
LastKey(c) == c[Len(c)].key

\* next(iter(self._cache))
FirstKey(c) == c[1].key

\* Variant of AtCapacity: the capacity test written with > instead of >=.
AtCapacityOffByOne(c, m) == Len(c) > m

\* len(self._cache) >= self.max_size
AtCapacity(c, m) == Len(c) >= m

\* Variant of DropExpired: expired entries are popped from the oldest end
\* only, up to the first entry that is still valid.
DropExpiredFromFront(c, t) ==
    LET live == {i \in 1..Len(c) : ~is_expired(c[i].entry, t)} IN
    IF live = {} THEN <<>>
    ELSE SubSeq(c, CHOOSE i \in live : \A j \in live : i <= j, Len(c))

\* OrderedDict((k, v) for k, v in self._cache.items() if not v.is_expired())
DropExpired(c, t) == SelectSeq(c, LAMBDA x : ~is_expired(x.entry, t))

\* ------------------------------------------------------- touch history

\* The stored keys in the order of their last touch (a get hit or a set),
\* least recently touched first; a removed key leaves the history.
Touched(h, key) == Append(SelectSeq(h, LAMBDA k : k # key), key)
Forget(h, gone) == SelectSeq(h, LAMBDA k : k \notin gone)

\* ------------------------------------------------------------------ state

Init ==
    /\ max_size \in 1..MaxSize
    /\ default_ttl = DefaultTtl
    /\ cache = <<>>
    /\ hits = 0
    /\ misses = 0
    /\ evictions = 0
    /\ now = 0
    /\ last = [op |-> "init"]
    /\ ops = 0
    /\ touch = <<>>
    /\ gets = 0
    /\ lock = None
    /\ pc = [t \in Tasks |-> [at |-> "idle"]]

\* Variant of GetAbsent: the miss of a key that is not stored is not counted.
GetAbsentUncounted(key) ==
    /\ last' = [op |-> "get", key |-> key, branch |-> "absent",
                result |-> None]
    /\ UNCHANGED <<cache, hits, misses, touch>>

\* get, key not stored: count a miss, return None
GetAbsent(key) ==
    /\ misses' = misses + 1
    /\ last' = [op |-> "get", key |-> key, branch |-> "absent",
                result |-> None]
    /\ UNCHANGED <<cache, hits, touch>>

\* Variant of GetExpired: the expired entry is reported absent but stays
\* stored.
GetExpiredKept(key) ==
    /\ misses' = misses + 1
    /\ last' = [op |-> "get", key |-> key, branch |-> "expired",
                result |-> None]
    /\ UNCHANGED <<cache, hits, touch>>

\* get, entry expired: delete it, count a miss, return None
GetExpired(key) ==
    /\ cache' = Delete(cache, key)
    /\ misses' = misses + 1
    /\ touch' = Forget(touch, {key})
    /\ last' = [op |-> "get", key |-> key, branch |-> "expired",
                result |-> None]
    /\ UNCHANGED hits

\* get, entry valid: move it to the end, count a hit, return it
GetHit(key, entry) ==
    /\ cache' = MoveToEnd(cache, key)
    /\ hits' = hits + 1
    /\ touch' = Touched(touch, key)
    /\ last' = [op |-> "get", key |-> key, branch |-> "hit",
                result |-> Some(entry)]
    /\ UNCHANGED misses

\* TranslationCache.get
Get(text, target_language) ==
    LET key == make_key(text, target_language) IN
    /\ ops' = ops + 1
    /\ IF ~Has(cache, key)
       THEN GetAbsent(key)
       ELSE IF is_expired(Lookup(cache, key), now)
            THEN GetExpired(key)
            ELSE GetHit(key, Lookup(cache, key))
    /\ gets' = gets + 1
    /\ UNCHANGED <<max_size, default_ttl, evictions, now>>

\* Variant of TtlValue: "ttl or self.default_ttl", which takes an explicit 0
\* for a missing ttl.
TtlValueOrDefault(ttl, default) ==
    IF ttl # None /\ ttl[1] # 0 THEN ttl[1] ELSE default

\* ttl if ttl is not None else self.default_ttl
TtlValue(ttl, default) == IF ttl # None THEN ttl[1] ELSE default

\* TranslationCache.set.  At capacity with an empty store (max_size <= 0),
\* next(iter(self._cache)) raises StopIteration, which leaves the coroutine
\* as RuntimeError before anything is changed.
Set(text, target_language, translated_text, source_language, ttl) ==
    LET key == make_key(text, target_language)
        ttl_value == TtlValue(ttl, default_ttl)
        evict == AtCapacity(cache, max_size)
        evicted_key == FirstKey(cache)
        kept == IF evict THEN Delete(cache, evicted_key) ELSE cache
        entry == CacheEntry(translated_text, source_language,
                            target_language, now, ttl_value)
    IN
    IF evict /\ cache = <<>>
    THEN /\ ops' = ops + 1
         /\ last' = [op |-> "set", key |-> key, text |-> text,
                     target_language |-> target_language,
                     translated_text |-> translated_text,
                     source_language |-> source_language, ttl |-> ttl,
                     raised |-> "RuntimeError"]
         /\ UNCHANGED <<max_size, default_ttl, cache, hits, misses,
                        evictions, now, touch, gets>>
    ELSE
    /\ ops' = ops + 1
    /\ evictions' = IF evict THEN evictions + 1 ELSE evictions
    /\ cache' = Store(kept, key, entry)
    /\ touch' = Touched(IF evict THEN Forget(touch, {evicted_key}) ELSE touch,
                        key)
    /\ last' = [op |-> "set", key |-> key, text |-> text,
                target_language |-> target_language,
                translated_text |-> translated_text,
                source_language |-> source_language, ttl |-> ttl,
                evicted |-> IF evict THEN Some(evicted_key) ELSE None]
    /\ UNCHANGED <<max_size, default_ttl, hits, misses, now, gets>>

\* Variant of Clear: only the expired entries are removed.
ClearExpiredOnly ==
    /\ ops' = ops + 1
    /\ cache' = DropExpired(cache, now)
    /\ touch' = Forget(touch, Keys(cache) \ Keys(DropExpired(cache, now)))
    /\ last' = [op |-> "clear"]
    /\ UNCHANGED <<max_size, default_ttl, hits, misses, evictions, now, gets>>

\* Variant of Clear: the statistics are cleared with the entries.
ClearWithStats ==
    /\ ops' = ops + 1
    /\ cache' = <<>>
    /\ touch' = <<>>
    /\ hits' = 0
    /\ misses' = 0
    /\ evictions' = 0
    /\ last' = [op |-> "clear"]
    /\ UNCHANGED <<max_size, default_ttl, now, gets>>

\* TranslationCache.clear
Clear ==
    /\ ops' = ops + 1
    /\ cache' = <<>>
    /\ touch' = <<>>
    /\ last' = [op |-> "clear"]
    /\ UNCHANGED <<max_size, default_ttl, hits, misses, evictions, now, gets>>

\* Variant of CleanupExpired: each removed entry is counted as an eviction.
CleanupExpiredCounted ==
    LET before == Len(cache)
        after == Len(DropExpired(cache, now))
    IN
    /\ ops' = ops + 1
    /\ cache' = DropExpired(cache, now)
    /\ touch' = Forget(touch, Keys(cache) \ Keys(DropExpired(cache, now)))
    /\ evictions' = evictions + (before - after)
    /\ last' = [op |-> "cleanup_expired", result |-> before - after]
    /\ UNCHANGED <<max_size, default_ttl, hits, misses, now, gets>>

\* TranslationCache.cleanup_expired
CleanupExpired ==
    LET before == Len(cache)
        after == Len(DropExpired(cache, now))
    IN
    /\ ops' = ops + 1
    /\ cache' = DropExpired(cache, now)
    /\ touch' = Forget(touch, Keys(cache) \ Keys(DropExpired(cache, now)))
    /\ last' = [op |-> "cleanup_expired", result |-> before - after]
    /\ UNCHANGED <<max_size, default_ttl, hits, misses, evictions, now, gets>>

\* Variant of HitRate: the quotient taken with integer division.
HitRateFloor(h, m) ==
    IF h + m > 0 THEN [num |-> h \div (h + m), den |-> 1]
    ELSE [num |-> 0, den |-> 1]

\* hit_rate = self._hits / total_requests if total_requests > 0 else 0,
\* as the fraction num/den
HitRate(h, m) ==
    IF h + m > 0 THEN [num |-> h, den |-> h + m] ELSE [num |-> 0, den |-> 1]

\* TranslationCache.get_stats
GetStats ==
    /\ ops' = ops + 1
    /\ last' = [op |-> "get_stats",
                result |-> [size |-> Len(cache), max_size |-> max_size,
                            hits |-> hits, misses |-> misses,
                            hit_rate |-> HitRate(hits, misses),
                            evictions |-> evictions]]
    /\ UNCHANGED <<max_size, default_ttl, cache, hits, misses, evictions, now,
                   touch, gets>>

\* Variant of ResetStats: evictions is left out of the reset.
ResetStatsKeepsEvictions ==
    /\ ops' = ops + 1
    /\ hits' = 0
    /\ misses' = 0
    /\ gets' = 0
    /\ last' = [op |-> "reset_stats"]
    /\ UNCHANGED <<max_size, default_ttl, cache, evictions, now, touch>>

\* TranslationCache.reset_stats
ResetStats ==
    /\ ops' = ops + 1
    /\ hits' = 0
    /\ misses' = 0
    /\ evictions' = 0
    /\ gets' = 0
    /\ last' = [op |-> "reset_stats"]
    /\ UNCHANGED <<max_size, default_ttl, cache, now, touch>>

\* time.time() advances between calls
Tick ==
    /\ now < MaxTime
    /\ now' = now + 1
    /\ UNCHANGED <<max_size, default_ttl, cache, hits, misses, evictions, last,
                   ops, touch, gets>>

\* A whole call in one step: the lock is free before and after it.
Atomic(call) == call /\ UNCHANGED <<lock, pc>>

GetAny == \E text \in Texts, target_language \in Languages :
    Get(text, target_language)

SetAny == \E text \in Texts, target_language \in Languages,
             result \in Results, ttl \in TtlArgs :
    Set(text, target_language, result[1], result[2], ttl)

Next ==
    \/ ops < MaxOps /\ Atomic(GetAny)
    \/ ops < MaxOps /\ Atomic(SetAny)
    \/ ops < MaxOps /\ Atomic(Clear)
    \/ ops < MaxOps /\ Atomic(CleanupExpired)
    \/ ops < MaxOps /\ Atomic(GetStats)
    \/ ops < MaxOps /\ Atomic(ResetStats)
    \/ Atomic(Tick)

Spec == Init /\ [][Next]_vars

\* Gets and sets with the default result and ttl, and no time passing: the
\* calls that decide the recency order.
SetDefault == \E text \in Texts, target_language \in Languages :
    Set(text, target_language, "Hello", "auto", None)

NextLru ==
    \/ ops < MaxLruOps /\ Atomic(GetAny)
    \/ ops < MaxLruOps /\ Atomic(SetDefault)

SpecLru == Init /\ [][NextLru]_vars

\* A cache that only receives sets of keys it does not hold.
SetNew == \E text \in Texts, target_language \in Languages,
             result \in Results, ttl \in TtlArgs :
    /\ ~Has(cache, make_key(text, target_language))
    /\ Set(text, target_language, result[1], result[2], ttl)

NextFill ==
    \/ ops < MaxFillOps /\ Atomic(SetNew)
    \/ Atomic(Tick)

SpecFill == Init /\ [][NextFill]_vars

\* Gets, default sets and the two statistics calls, with no time passing.
NextStats ==
    \/ ops < MaxStatsOps /\ Atomic(GetAny)
    \/ ops < MaxStatsOps /\ Atomic(SetDefault)
    \/ ops < MaxStatsOps /\ Atomic(GetStats)
    \/ ops < MaxStatsOps /\ Atomic(ResetStats)

SpecStats == Init /\ [][NextStats]_vars

\* Sets of new keys, cleanups and time passing.
NextCleanup ==
    \/ ops < MaxCleanupOps /\ Atomic(SetNew)
    \/ ops < MaxCleanupOps /\ Atomic(CleanupExpired)
    \/ Atomic(Tick)

SpecCleanup == Init /\ [][NextCleanup]_vars

\* A cache constructed with any max_size from 0 on: __init__ takes the
\* value as it is.
InitAnySize ==
    /\ max_size \in 0..MaxSize
    /\ default_ttl = DefaultTtl
    /\ cache = <<>>
    /\ hits = 0
    /\ misses = 0
    /\ evictions = 0
    /\ now = 0
    /\ last = [op |-> "init"]
    /\ ops = 0
    /\ touch = <<>>
    /\ gets = 0
    /\ lock = None
    /\ pc = [t \in Tasks |-> [at |-> "idle"]]

SpecAnySize == InitAnySize /\ [][Next]_vars

\* ------------------------------------------------ language normalization

\* googletrans.LANGUAGES, in its order of iteration: a part of the directory
\* with the two Chinese entries.
LANGUAGES ==
    << [code |-> "zh-cn", name |-> "chinese (simplified)"],
       [code |-> "zh-tw", name |-> "chinese (traditional)"],
       [code |-> "en", name |-> "english"],
       [code |-> "fr", name |-> "french"],
       [code |-> "es", name |-> "spanish"] >>

Codes == {LANGUAGES[i].code : i \in 1..Len(LANGUAGES)}
Names == {LANGUAGES[i].name : i \in 1..Len(LANGUAGES)}

\* The language arguments handed to normalize_language.
LanguageInputs ==
    {"en", "EN", " en ", "fr", "es", "zh-cn", "ZH-CN", "zh-tw",
     "english", "English", " ENGLISH ", "French", "spanish",
     "chinese (simplified)", "Chinese (Traditional)", "chinese", " Chinese ",
     "mandarin chinese", "zh", "ZH", "ch", "klingon", "Klingon", "", "  "}

\* str.lower
Lower(s) ==
    CASE s = "EN" -> "en"
      [] s = "ZH-CN" -> "zh-cn"
      [] s = "English" -> "english"
      [] s = " ENGLISH " -> " english "
      [] s = "ENGLISH" -> "english"
      [] s = "French" -> "french"
      [] s = "Chinese (Traditional)" -> "chinese (traditional)"
      [] s = " Chinese " -> " chinese "
      [] s = "Chinese" -> "chinese"
      [] s = "ZH" -> "zh"
      [] s = "Klingon" -> "klingon"
      [] OTHER -> s

\* str.strip
Strip(s) ==
    CASE s = " en " -> "en"
      [] s = " ENGLISH " -> "ENGLISH"
      [] s = " english " -> "english"
      [] s = " Chinese " -> "Chinese"
      [] s = " chinese " -> "chinese"
      [] s = "  " -> ""
      [] OTHER -> s

\* "chinese" in s
ContainsChinese(s) ==
    s \in {"chinese", " chinese ", "chinese (simplified)",
           "chinese (traditional)", "mandarin chinese"}

\* Variant of normalize_language: the input is lowercased and not stripped.
normalize_language_unstripped(language) ==
    LET language_lower == Lower(language)
        matches == {i \in 1..Len(LANGUAGES) :
                        Lower(LANGUAGES[i].name) = language_lower}
        first == CHOOSE i \in matches : \A j \in matches : i <= j
    IN  IF language_lower \in Codes THEN Some(language_lower)
        ELSE IF matches # {}
        THEN IF ContainsChinese(Lower(LANGUAGES[first].name))
             THEN Some("chinese (simplified)")
             ELSE Some(LANGUAGES[first].code)
        ELSE IF ContainsChinese(language_lower) \/ language_lower \in {"zh", "ch"}
        THEN Some("chinese (simplified)")
        ELSE None

\* Variant of normalize_language: the lookup of the input among the codes
\* is missing.
normalize_language_names_only(language) ==
    LET language_lower == Strip(Lower(language))
        matches == {i \in 1..Len(LANGUAGES) :
                        Lower(LANGUAGES[i].name) = language_lower}
        first == CHOOSE i \in matches : \A j \in matches : i <= j
    IN  IF matches # {}
        THEN IF ContainsChinese(Lower(LANGUAGES[first].name))
             THEN Some("chinese (simplified)")
             ELSE Some(LANGUAGES[first].code)
        ELSE IF ContainsChinese(language_lower) \/ language_lower \in {"zh", "ch"}
        THEN Some("chinese (simplified)")
        ELSE None

\* Translator.normalize_language: a known code, else the code of the first
\* entry with that display name, else the partial match for Chinese.
normalize_language(language) ==
    LET language_lower == Strip(Lower(language))
        matches == {i \in 1..Len(LANGUAGES) :
                        Lower(LANGUAGES[i].name) = language_lower}
        first == CHOOSE i \in matches : \A j \in matches : i <= j
    IN  IF language_lower \in Codes THEN Some(language_lower)
        ELSE IF matches # {}
        THEN IF ContainsChinese(Lower(LANGUAGES[first].name))
             THEN Some("chinese (simplified)")
             ELSE Some(LANGUAGES[first].code)
        ELSE IF ContainsChinese(language_lower) \/ language_lower \in {"zh", "ch"}
        THEN Some("chinese (simplified)")
        ELSE None

\* One call of normalize_language.
NormalizeLanguage == \E language \in LanguageInputs :
    /\ last' = [op |-> "normalize_language", language |-> language,
                result |-> normalize_language(language)]
    /\ ops' = ops + 1
    /\ UNCHANGED <<max_size, default_ttl, cache, hits, misses, evictions,
                   now, touch, gets>>

NextNorm == ops < MaxNormOps /\ Atomic(NormalizeLanguage)

SpecNorm == Init /\ [][NextNorm]_vars

\* ------------------------------------------------- tasks and the lock

\* The state of the cache object and the histories of its calls.
cacheVars == <<max_size, default_ttl, cache, hits, misses, evictions, now,
               last, ops, touch, gets>>

\* not text or not text.strip()
IsBlank(text) == text = "" \/ Strip(text) = ""

\* Variant of clean_text: the text is stripped and custom emojis stay.
clean_text_emoji_kept(text) == Strip(text)

\* CUSTOM_EMOJI_PATTERN.sub("", text).strip()
clean_text(text) ==
    CASE text = "<:wave:1> Hola" -> "Hola"
      [] text = "<:wave:1>" -> ""
      [] OTHER -> text

\* Variant of Suspended: the body of a call awaits, so that the event loop
\* runs other tasks while the lock is held.
SuspendedInBody(p) == TRUE

\* Whether a task at p is suspended at an await (or has nothing to run).  A
\* task that took the lock runs its body to the end: no body has an await.
Suspended(p) == p.at # "locked"

\* The event loop runs one task at a time, up to its next await.
LoopFree == \A t \in Tasks : Suspended(pc[t])

\* The cache calls of a task that take the lock.
LockedCalls ==
    {[op |-> "get", text |-> text, target_language |-> l] :
        text \in Texts, l \in Languages}
    \cup {[op |-> "set", text |-> text, target_language |-> l,
           translated_text |-> "Hello", source_language |-> "auto",
           ttl |-> None] : text \in Texts, l \in Languages}
    \cup {[op |-> "clear"], [op |-> "cleanup_expired"]}

\* The target languages handed to _do_translate: the registered default
\* preference, a code returned by normalize_language, and a language that
\* is not recognized.
FlowLanguages == {"english", "en", "klingon"}

\* What the outbound call of googletrans does within asyncio.wait_for: it
\* returns a text, it raises, or it exceeds the timeout.
OutboundEvents ==
    {[kind |-> "returns", text |-> "Hello"], [kind |-> "returns", text |-> "Hi"],
     [kind |-> "raises"], [kind |-> "times_out"]}

\* Variant of TranslateOutcome: "except Exception" comes first and wraps the
\* timeout as well.
TranslateOutcomeWrapped(target_language, event) ==
    IF normalize_language(target_language) = None
    THEN [kind |-> "LanguageNotFoundError"]
    ELSE CASE event.kind = "returns" -> [kind |-> "text", text |-> event.text]
           [] event.kind = "times_out" -> [kind |-> "TranslationAPIError"]
           [] event.kind = "raises" -> [kind |-> "TranslationAPIError"]

\* Translator.translate for a text that is not blank: how the call ends.
TranslateOutcome(target_language, event) ==
    IF normalize_language(target_language) = None
    THEN [kind |-> "LanguageNotFoundError"]
    ELSE CASE event.kind = "returns" -> [kind |-> "text", text |-> event.text]
           [] event.kind = "times_out" -> [kind |-> "TimeoutError"]
           [] event.kind = "raises" -> [kind |-> "TranslationAPIError"]

\* History of one _do_translate: the calls of translator.translate made so
\* far and what the outbound call did, if one was made.
NoCalls == [calls |-> 0, event |-> None]

\* async with self._lock, entered: the lock is free and is taken
Acquire(t, call, flow, ctx) ==
    /\ LoopFree
    /\ lock = None
    /\ lock' = Some(t)
    /\ pc' = [pc EXCEPT ![t] = [at |-> "locked", call |-> call, flow |-> flow,
                                ctx |-> ctx]]
    /\ UNCHANGED cacheVars

\* A task calls get, set, clear or cleanup_expired.
Enter(t) == \E call \in LockedCalls :
    /\ pc[t].at = "idle"
    /\ Acquire(t, call, FALSE, NoCalls)

\* A task that has finished a _do_translate: what cache.get gave, how many
\* calls of translator.translate and of cache.set it made, and how it ended.
Finished(get, ctx, sets, outcome) ==
    [at |-> "idle", get |-> get, calls |-> ctx.calls, event |-> ctx.event,
     sets |-> sets, outcome |-> outcome]

\* _do_translate up to the lock of cache.get: a text that is blank, or empty
\* once cleaned, ends the call with None; else the cleaned text and the
\* target language, as it was given, go to cache.get
DoTranslate(t, text, target_language) ==
    /\ pc[t].at = "idle"
    /\ IF IsBlank(text) \/ clean_text(text) = ""
       THEN /\ LoopFree
            /\ pc' = [pc EXCEPT ![t] =
                    Finished("none", NoCalls, 0, [kind |-> "none"])]
            /\ UNCHANGED <<cacheVars, lock>>
       ELSE Acquire(t, [op |-> "get", text |-> clean_text(text),
                        target_language |-> target_language], TRUE, NoCalls)

\* A task calls _do_translate.
EnterFlow(t) == \E text \in RawTexts, target_language \in FlowLanguages :
    DoTranslate(t, text, target_language)

\* The body of the call that holds the lock.
RunCall(call) ==
    \/ call.op = "get" /\ Get(call.text, call.target_language)
    \/ /\ call.op = "set"
       /\ Set(call.text, call.target_language, call.translated_text,
              call.source_language, call.ttl)
    \/ call.op = "clear" /\ Clear
    \/ call.op = "cleanup_expired" /\ CleanupExpired

\* Variant of LockAfterBody: the lock is not released when the body ends.
LockKept(t) == Some(t)

\* async with self._lock, left: the lock is released
LockAfterBody(t) == None

\* Where a task goes when the body of its call ends.  A get of _do_translate
\* that returns an entry ends the flow with the cached text; one that
\* returns None calls translator.translate, which raises at once for an
\* unknown language and else awaits the outbound call; the set of
\* _do_translate ends the flow with the translated text.
AfterBody(p, result) ==
    IF ~p.flow THEN [at |-> "idle"]
    ELSE IF p.call.op = "set"
    THEN Finished("miss", p.ctx, 1,
                  [kind |-> "text", text |-> p.call.translated_text])
    ELSE IF result # None
    THEN Finished("hit", p.ctx, 0,
                  [kind |-> "text", text |-> result[1].translated_text])
    ELSE IF normalize_language(p.call.target_language) = None
    THEN Finished("miss", [p.ctx EXCEPT !.calls = @ + 1], 0,
                  TranslateOutcome(p.call.target_language, [kind |-> "raises"]))
    ELSE [at |-> "translate", text |-> p.call.text,
          target_language |-> p.call.target_language,
          ctx |-> [p.ctx EXCEPT !.calls = @ + 1]]

\* Variant of Body: the lock stays held when get returns None.
BodyHoldsLockOnMiss(t) ==
    /\ pc[t].at = "locked"
    /\ lock = Some(t)
    /\ RunCall(pc[t].call)
    /\ lock' = IF pc[t].call.op = "get" /\ last'.result = None
               THEN Some(t) ELSE LockAfterBody(t)
    /\ pc' = [pc EXCEPT ![t] =
            AfterBody(pc[t], IF pc[t].call.op = "get" THEN last'.result
                             ELSE None)]

\* The body of a call and the release of the lock.
Body(t) ==
    /\ pc[t].at = "locked"
    /\ lock = Some(t)
    /\ RunCall(pc[t].call)
    /\ lock' = LockAfterBody(t)
    /\ pc' = [pc EXCEPT ![t] =
            AfterBody(pc[t], IF pc[t].call.op = "get" THEN last'.result
                             ELSE None)]

\* translator.translate returns a text: _do_translate calls cache.set
TranslateReturns(t) == \E event \in OutboundEvents :
    /\ pc[t].at = "translate"
    /\ event.kind = "returns"
    /\ Acquire(t, [op |-> "set", text |-> pc[t].text,
                    target_language |-> pc[t].target_language,
                    translated_text |->
                        TranslateOutcome(pc[t].target_language, event).text,
                    source_language |-> "auto", ttl |-> None],
               TRUE, [pc[t].ctx EXCEPT !.event = Some(event)])

\* Variant of TranslateFails: the failure is stored as an empty translation.
TranslateFailsStored(t) == \E event \in OutboundEvents :
    /\ pc[t].at = "translate"
    /\ event.kind # "returns"
    /\ LoopFree
    /\ pc' = [pc EXCEPT ![t] =
            Finished("miss", [pc[t].ctx EXCEPT !.event = Some(event)], 1,
                     TranslateOutcome(pc[t].target_language, event))]
    /\ cache' = Store(cache, make_key(pc[t].text, pc[t].target_language),
                      CacheEntry("", "auto", pc[t].target_language, now,
                                 default_ttl))
    /\ touch' = Touched(touch, make_key(pc[t].text, pc[t].target_language))
    /\ UNCHANGED <<max_size, default_ttl, hits, misses, evictions, now, last,
                   ops, gets, lock>>

\* Variant of TranslateFails: after a failure translator.translate is
\* called once more.
TranslateFailsRetried(t) == \E event \in OutboundEvents :
    /\ pc[t].at = "translate"
    /\ event.kind # "returns"
    /\ LoopFree
    /\ pc' = [pc EXCEPT ![t] =
            IF pc[t].ctx.calls < 2
            THEN [pc[t] EXCEPT !.ctx.calls = @ + 1]
            ELSE Finished("miss", [pc[t].ctx EXCEPT !.event = Some(event)], 0,
                          TranslateOutcome(pc[t].target_language, event))]
    /\ UNCHANGED <<cacheVars, lock>>

\* translator.translate raises: _do_translate has no handler and ends
\* without a set
TranslateFails(t) == \E event \in OutboundEvents :
    /\ pc[t].at = "translate"
    /\ event.kind # "returns"
    /\ LoopFree
    /\ pc' = [pc EXCEPT ![t] =
            Finished("miss", [pc[t].ctx EXCEPT !.event = Some(event)], 0,
                     TranslateOutcome(pc[t].target_language, event))]
    /\ UNCHANGED <<cacheVars, lock>>

\* get_stats and reset_stats are plain methods: they take no lock and run
\* whenever the event loop runs their caller.
SyncGetStats == LoopFree /\ GetStats /\ UNCHANGED <<lock, pc>>
SyncResetStats == LoopFree /\ ResetStats /\ UNCHANGED <<lock, pc>>

NextLock ==
    \/ \E t \in Tasks : ops < MaxLockOps /\ Enter(t)
    \/ \E t \in Tasks : ops < MaxLockOps /\ EnterFlow(t)
    \/ \E t \in Tasks : Body(t)
    \/ \E t \in Tasks : ops < MaxLockOps /\ TranslateReturns(t)
    \/ \E t \in Tasks : TranslateFails(t)
    \/ ops < MaxLockOps /\ SyncGetStats
    \/ ops < MaxLockOps /\ SyncResetStats

SpecLock == Init /\ [][NextLock]_vars

\* The steps of NextLock in runs of up to MaxFairOps calls.
NextLockFair ==
    \/ \E t \in Tasks : ops < MaxFairOps /\ Enter(t)
    \/ \E t \in Tasks : ops < MaxFairOps /\ EnterFlow(t)
    \/ \E t \in Tasks : Body(t)
    \/ \E t \in Tasks : ops < MaxFairOps /\ TranslateReturns(t)
    \/ \E t \in Tasks : TranslateFails(t)
    \/ ops < MaxFairOps /\ SyncGetStats
    \/ ops < MaxFairOps /\ SyncResetStats

\* The event loop runs a task that is ready: a task that holds the lock is
\* not suspended, so its body is run to the end.
SpecLockFair ==
    Init /\ [][NextLockFair]_vars /\ \A t \in Tasks : WF_vars(Body(t))

\* Tasks that only call _do_translate.
NextFlow ==
    \/ \E t \in Tasks : ops < MaxFlowOps /\ EnterFlow(t)
    \/ \E t \in Tasks : Body(t)
    \/ \E t \in Tasks : ops < MaxFlowOps /\ TranslateReturns(t)
    \/ \E t \in Tasks : TranslateFails(t)

SpecFlow == Init /\ [][NextFlow]_vars

\* Texts with one and the same cleaned text.
RaceTexts == {"Hola", "<:wave:1> Hola"}

\* A task calls _do_translate for the one cleaned text and language "en".
EnterRace(t) == \E text \in RaceTexts : DoTranslate(t, text, "en")

\* Tasks that call _do_translate for one key, with a translation service
\* that always returns.
NextRace ==
    \/ \E t \in Tasks : ops < MaxRaceOps /\ EnterRace(t)
    \/ \E t \in Tasks : Body(t)
    \/ \E t \in Tasks : ops < MaxRaceOps /\ TranslateReturns(t)

SpecRace == Init /\ [][NextRace]_vars

\* ------------------------------------------------------------ properties

\* A step that completes one cache call; last' describes that call.
Call(op) == ops' = ops + 1 /\ last'.op = op

\* The history holds exactly the stored keys.
TouchMatchesStore ==
    /\ Len(touch) = Len(cache)
    /\ {touch[i] : i \in 1..Len(touch)} = Keys(cache)

\* C1: for a cache built with max_size >= 1, after any sequence of get, set,
\* clear, cleanup_expired, get_stats and reset_stats calls the number of
\* stored entries never exceeds max_size.
C1_SizeBounded == Len(cache) <= max_size

\* A set has evicted and the store is full.
C1_Witness ==
    /\ last.op = "set"
    /\ last.evicted # None
    /\ Len(cache) = max_size

\* C2: a set of a key that is not stored, at size >= max_size, removes
\* exactly one entry, the one least recently touched by a get hit or a set,
\* and adds 1 to evictions; at size < max_size it removes nothing and leaves
\* evictions unchanged.
C2_EvictsLeastRecentlyTouched ==
    [][(Call("set") /\ ~Has(cache, last'.key)) =>
        IF Len(cache) >= max_size
        THEN /\ Keys(cache') = (Keys(cache) \ {touch[1]}) \cup {last'.key}
             /\ Len(cache') = Len(cache)
             /\ evictions' = evictions + 1
        ELSE /\ Keys(cache') = Keys(cache) \cup {last'.key}
             /\ Len(cache') = Len(cache) + 1
             /\ evictions' = evictions]_vars

\* C3: a set of a key that is already stored never evicts: evictions, the
\* other stored keys and the size are unchanged, also at size = max_size.
C3_OverwriteNeverEvicts ==
    [][(Call("set") /\ Has(cache, last'.key)) =>
        /\ evictions' = evictions
        /\ Keys(cache') = Keys(cache)
        /\ Len(cache') = Len(cache)]_vars

\* C4: after a set, of a new key or of a stored one, that key is at the
\* most-recent end of the recency order.
C4_SetIsMostRecent ==
    last.op = "set" => cache[Len(cache)].key = last.key

\* The stored entries other than that of key are the same, in the same order.
OthersUntouched(key) ==
    SelectSeq(cache', LAMBDA x : x.key # key)
        = SelectSeq(cache, LAMBDA x : x.key # key)

\* C5: a get of a key that is stored and not expired moves that key to the
\* most-recently-used position, adds exactly 1 to hits, leaves misses,
\* evictions and the set of stored keys unchanged, and returns the stored
\* entry.
C5_GetHit ==
    [][(/\ Call("get")
        /\ Has(cache, last'.key)
        /\ ~is_expired(Lookup(cache, last'.key), now)) =>
        /\ cache'[Len(cache')] =
               [key |-> last'.key, entry |-> Lookup(cache, last'.key)]
        /\ Keys(cache') = Keys(cache)
        /\ Len(cache') = Len(cache)
        /\ OthersUntouched(last'.key)
        /\ hits' = hits + 1
        /\ misses' = misses
        /\ evictions' = evictions
        /\ last'.result = Some(Lookup(cache, last'.key))]_vars

\* A get has hit the older of two stored entries, which is now the last.
C5_Witness ==
    /\ last.op = "get"
    /\ last.branch = "hit"
    /\ Len(cache) >= 2
    /\ cache[Len(cache)].key = last.key
    /\ cache[Len(cache)].entry.timestamp < cache[1].entry.timestamp

\* C6: a get of a key that is not stored returns None, adds exactly 1 to
\* misses, and leaves hits, evictions, the stored entries and their order
\* unchanged.
C6_GetAbsent ==
    [][(Call("get") /\ ~Has(cache, last'.key)) =>
        /\ last'.result = None
        /\ misses' = misses + 1
        /\ hits' = hits
        /\ evictions' = evictions
        /\ cache' = cache]_vars

\* A get has missed a key that a store of other entries does not hold.
C6_Witness ==
    /\ last.op = "get"
    /\ last.branch = "absent"
    /\ Len(cache) >= 1
    /\ misses >= 1

\* C7: a get of a key whose entry is stored but expired removes exactly that
\* entry, adds exactly 1 to misses, leaves hits and evictions unchanged and
\* returns None; the cleanup_expired that follows a get returning None
\* counts the expired entries of the other keys only.
C7_GetExpired ==
    [][/\ (/\ Call("get")
            /\ Has(cache, last'.key)
            /\ is_expired(Lookup(cache, last'.key), now)) =>
            /\ last'.result = None
            /\ misses' = misses + 1
            /\ hits' = hits
            /\ evictions' = evictions
            /\ ~Has(cache', last'.key)
            /\ Len(cache') = Len(cache) - 1
            /\ OthersUntouched(last'.key)
       /\ (/\ Call("cleanup_expired")
            /\ last.op = "get"
            /\ last.result = None) =>
            /\ ~Has(cache, last.key)
            /\ last'.result = Cardinality(
                   {k \in Keys(cache) \ {last.key} :
                       is_expired(Lookup(cache, k), now)})]_vars

\* A get has removed an expired entry and left another one stored.
C7_Witness ==
    /\ last.op = "get"
    /\ last.branch = "expired"
    /\ misses >= 1
    /\ Len(cache) >= 1

\* C8: a cache that only receives sets of keys it does not hold evicts in
\* insertion order: each set at size = max_size removes the first-inserted
\* of the stored keys and no other, stores the new key, and adds exactly 1
\* to evictions; the other entries stay as they were.  (Under SpecFill every
\* touch is an insertion, so touch[1] is the first-inserted stored key.)
C8_FifoWithoutGets ==
    [][(Call("set") /\ Len(cache) >= max_size) =>
        /\ ~Has(cache', touch[1])
        /\ Keys(cache') = (Keys(cache) \ {touch[1]}) \cup {last'.key}
        /\ \A k \in Keys(cache) \ {touch[1]} :
               Lookup(cache', k) = Lookup(cache, k)
        /\ Len(cache') = max_size
        /\ evictions' = evictions + 1]_vars

\* max_size keys were inserted, then one more: one eviction, store full.
C8_Witness ==
    /\ max_size >= 2
    /\ ops = max_size + 1
    /\ evictions = 1
    /\ Len(cache) = max_size

\* C9: in a full cache holding another entry, when a get hits key A and the
\* next call sets a key that is not stored, the evicted entry is the least
\* recently touched one other than A, and A stays stored.  (A is the last
\* touched, so the least recently touched other entry is touch[1].)
C9_HitProtects ==
    [][(/\ Call("set")
        /\ last.op = "get"
        /\ last.result # None
        /\ ~Has(cache, last'.key)
        /\ Len(cache) >= max_size
        /\ Len(cache) >= 2) =>
        /\ last'.evicted = Some(touch[1])
        /\ ~Has(cache', touch[1])
        /\ Has(cache', last.key)]_vars

\* C10: round trip.  A get that directly follows set(T, L, R, S) and finds
\* the entry not expired returns an entry with translated_text R,
\* source_language S and target_language L; an entry that stays stored
\* across a call other than a set of its key is unchanged; and every get of
\* a stored, unexpired key returns the stored entry and adds exactly 1 to
\* hits.
C10_RoundTrip ==
    [][/\ (/\ Call("get")
            /\ last.op = "set"
            /\ last'.key = make_key(last.text, last.target_language)
            /\ ~is_expired(Lookup(cache, last'.key), now)) =>
            /\ last'.result # None
            /\ last'.result[1].translated_text = last.translated_text
            /\ last'.result[1].source_language = last.source_language
            /\ last'.result[1].target_language = last.target_language
       /\ \A k \in Keys(cache) \cap Keys(cache') :
            ~(Call("set") /\ last'.key = k) =>
                Lookup(cache', k) = Lookup(cache, k)
       /\ (/\ Call("get")
            /\ Has(cache, last'.key)
            /\ ~is_expired(Lookup(cache, last'.key), now)) =>
            /\ last'.result = Some(Lookup(cache, last'.key))
            /\ Lookup(cache', last'.key) = Lookup(cache, last'.key)
            /\ hits' = hits + 1]_vars

\* Two gets in a row have hit the entry of a set with a given source
\* language.
C10_Witness ==
    /\ last.op = "get"
    /\ last.branch = "hit"
    /\ last.result[1].source_language = "es"
    /\ hits = 2
    /\ ops = 3

\* Time elapsed since the entry was created.
Elapsed(entry) == now - entry.timestamp

\* C11: a stored entry is expired exactly when its ttl is greater than 0 and
\* the time elapsed since its creation is strictly greater than its ttl; so
\* an entry with ttl 0 is never expired and one whose elapsed time equals its
\* ttl is not yet expired.
C11_ExpiredIffPastTtl ==
    \A i \in 1..Len(cache) :
        LET entry == cache[i].entry IN
        /\ is_expired(entry, now) <=> (entry.ttl > 0 /\ Elapsed(entry) > entry.ttl)
        /\ entry.ttl = 0 => ~is_expired(entry, now)
        /\ Elapsed(entry) = entry.ttl => ~is_expired(entry, now)

\* The store holds an expired entry, one with ttl 0 created in the past,
\* and one whose ttl has elapsed exactly.
C11_Witness ==
    /\ \E i \in 1..Len(cache) : is_expired(cache[i].entry, now)
    /\ \E i \in 1..Len(cache) :
           cache[i].entry.ttl = 0 /\ Elapsed(cache[i].entry) > 0
    /\ \E i \in 1..Len(cache) :
           cache[i].entry.ttl > 0 /\ Elapsed(cache[i].entry) = cache[i].entry.ttl

\* C12: the entry created by set carries the ttl argument when one is given,
\* an explicit 0 included, and default_ttl otherwise, and its creation time
\* is the time of this set, also when the key was stored before.
C12_SetTtlAndTimestamp ==
    [][Call("set") =>
        LET entry == Lookup(cache', last'.key) IN
        /\ Has(cache', last'.key)
        /\ last'.ttl # None => entry.ttl = last'.ttl[1]
        /\ last'.ttl = None => entry.ttl = default_ttl
        /\ entry.timestamp = now]_vars

\* A set with an explicit ttl of 0, under a positive default_ttl, after the
\* clock has advanced.
C12_Witness ==
    /\ last.op = "set"
    /\ last.ttl = Some(0)
    /\ default_ttl > 0
    /\ Lookup(cache, last.key).ttl = 0
    /\ Lookup(cache, last.key).timestamp > 0

\* C13: cleanup_expired removes every entry that is expired at the time of
\* the call, wherever it sits in the order, removes no other entry, keeps
\* the entries it leaves as they were, and returns the number it removed.
C13_CleanupRemovesExpired ==
    [][Call("cleanup_expired") =>
        /\ \A k \in Keys(cache) :
               Has(cache', k) <=> ~is_expired(Lookup(cache, k), now)
        /\ Keys(cache') \subseteq Keys(cache)
        /\ \A k \in Keys(cache') : Lookup(cache', k) = Lookup(cache, k)
        /\ last'.result = Len(cache) - Len(cache')
        /\ last'.result = Cardinality(
               {k \in Keys(cache) : is_expired(Lookup(cache, k), now)})]_vars

\* A cleanup has removed an entry and kept one that never expires.
C13_Witness ==
    /\ last.op = "cleanup_expired"
    /\ last.result >= 1
    /\ Len(cache) >= 1
    /\ cache[1].entry.ttl = 0

\* C14: clear leaves the store empty and leaves hits, misses and evictions
\* as they were; a get that directly follows a clear is a miss.
C14_ClearKeepsStats ==
    [][/\ Call("clear") =>
            /\ cache' = <<>>
            /\ hits' = hits
            /\ misses' = misses
            /\ evictions' = evictions
       /\ (Call("get") /\ last.op = "clear") =>
            /\ last'.result = None
            /\ misses' = misses + 1
            /\ hits' = hits]_vars

\* A clear right after a set and a hit: the store held an entry and hits
\* was 1.
C14_Witness ==
    /\ last.op = "clear"
    /\ hits = 1
    /\ ops = 3
    /\ cache = <<>>

\* C15: reset_stats sets hits, misses and evictions to 0 and leaves the
\* stored entries, their order and the size unchanged.
C15_ResetStats ==
    [][Call("reset_stats") =>
        /\ hits' = 0
        /\ misses' = 0
        /\ evictions' = 0
        /\ cache' = cache]_vars

\* A reset of the statistics of a cache that holds entries.
C15_Witness ==
    /\ last.op = "reset_stats"
    /\ Len(cache) >= 2
    /\ hits = 0
    /\ misses = 0
    /\ evictions = 0

\* C16: hits + misses equals the number of get calls completed since the
\* last reset_stats (or since construction), and get_stats reports
\* hit_rate = hits / (hits + misses) when that sum is positive and 0 when it
\* is 0, with the current size, max_size, hits, misses and evictions.
C16_StatsConsistent ==
    /\ hits + misses = gets
    /\ last.op = "get_stats" =>
        LET r == last.result IN
        /\ r.size = Len(cache)
        /\ r.max_size = max_size
        /\ r.hits = hits
        /\ r.misses = misses
        /\ r.evictions = evictions
        /\ r.hit_rate.den > 0
        /\ IF hits + misses > 0
           THEN r.hit_rate.num * (hits + misses) = hits * r.hit_rate.den
           ELSE r.hit_rate.num = 0

\* get_stats after one hit and one miss: a hit rate of one half.
C16_Witness ==
    /\ last.op = "get_stats"
    /\ hits = 1
    /\ misses = 1
    /\ last.result.hit_rate = [num |-> 1, den |-> 2]

\* C17: no get, set, clear, cleanup_expired or get_stats lowers hits, misses
\* or evictions.
C17_CountersMonotone ==
    [][~Call("reset_stats") =>
        /\ hits' >= hits
        /\ misses' >= misses
        /\ evictions' >= evictions]_vars

\* A clear has run with an eviction counted before it.
C17_Witness ==
    /\ last.op = "clear"
    /\ evictions >= 1

\* The tasks that are inside the critical section of a locked call.
InCriticalSection == {t \in Tasks : pc[t].at = "locked"}

\* C18: every step that changes the store, the recency order or one of the
\* counters hits, misses, evictions is taken by a task that holds the lock
\* and is inside its critical section, and at most one task is inside its
\* critical section.  reset_stats changes the counters without the lock.
C18_MutationsUnderLock ==
    [][/\ (cache' # cache \/ hits' # hits \/ misses' # misses
              \/ evictions' # evictions)
          => \E t \in Tasks : lock = Some(t) /\ pc[t].at = "locked"
       /\ Cardinality(InCriticalSection) <= 1
       /\ Cardinality(InCriticalSection') <= 1]_vars

\* C19: a get_stats call changes nothing of the cache, runs while no task is
\* inside the critical section of a get, set, clear or cleanup_expired (the
\* lock is free, every call made before it is complete), and returns the
\* size, counters and hit rate of that one state.
C19_StatsSnapshot ==
    [][Call("get_stats") =>
        /\ UNCHANGED <<max_size, default_ttl, cache, hits, misses, evictions,
                       lock, pc>>
        /\ InCriticalSection = {}
        /\ lock = None
        /\ last'.result = [size |-> Len(cache), max_size |-> max_size,
                           hits |-> hits, misses |-> misses,
                           hit_rate |-> HitRate(hits, misses),
                           evictions |-> evictions]]_vars

\* get_stats has run while a task waits on the translation service, after
\* the get of that task counted its miss.
C19_Witness ==
    /\ last.op = "get_stats"
    /\ last.result.misses >= 1
    /\ \E t \in Tasks : pc[t].at = "translate"

\* C20: a task that waits on the external translate call does not hold the
\* lock, and the lock is held only by a task inside the body of a call.
C20_LockFreeWhileTranslating ==
    \A t \in Tasks :
        /\ pc[t].at = "translate" => lock # Some(t)
        /\ lock = Some(t) <=> pc[t].at = "locked"

\* While one task waits on the translation service, another call took the
\* lock and completed.
C20_Witness ==
    \E t \in Tasks :
        /\ pc[t].at = "translate"
        /\ last.op \in {"set", "clear", "cleanup_expired"}
        /\ lock = None

\* The inputs of the Chinese rules: a display name with "chinese", an input
\* that contains "chinese", or "zh" or "ch", none of them a known code.
ChineseInput(language) ==
    LET x == Strip(Lower(language))
    IN  /\ x \notin Codes
        /\ ContainsChinese(x) \/ x \in {"zh", "ch"}

\* The code of the directory whose display name is Chinese (Simplified).
ChineseSimplifiedCode ==
    LANGUAGES[CHOOSE i \in 1..Len(LANGUAGES) :
                  LANGUAGES[i].name = "chinese (simplified)"].code

\* C24: for every input of the Chinese rules normalize_language returns the
\* code of Chinese (Simplified), the value it returns for that code itself.
C24_ChineseCollapses ==
    last.op = "normalize_language" /\ ChineseInput(last.language)
        => /\ last.result = Some(ChineseSimplifiedCode)
           /\ last.result = normalize_language(ChineseSimplifiedCode)

\* The entry of the directory with display name x.
EntryNamed(x) == CHOOSE i \in 1..Len(LANGUAGES) : LANGUAGES[i].name = x

\* C25: normalize_language returns a known code for an input that equals
\* it, else the code of the entry for an input that equals a display name
\* without "chinese", and None for an input that matches no rule; every
\* result that is not None is a code of the directory.
C25_RulesInOrder ==
    last.op = "normalize_language" =>
        LET x == Strip(Lower(last.language))
        IN  /\ x \in Codes => last.result = Some(x)
            /\ x \notin Codes /\ x \in Names /\ ~ContainsChinese(x)
                   => last.result = Some(LANGUAGES[EntryNamed(x)].code)
            /\ x \notin Codes /\ x \notin Names /\ ~ChineseInput(last.language)
                   => last.result = None
            /\ last.result # None => last.result[1] \in Codes

\* C26: normalize_language returns for an input what it returns for the
\* input stripped and lowercased, and None for an input that is empty or
\* only whitespace.
C26_CaseAndSpaceInsensitive ==
    last.op = "normalize_language" =>
        /\ last.result = normalize_language(Lower(Strip(last.language)))
        /\ Strip(last.language) = "" => last.result = None

\* An input in upper case with surrounding spaces was normalized to a code.
C26_Witness ==
    /\ last.op = "normalize_language"
    /\ last.language = " ENGLISH "
    /\ last.result = Some("en")

\* C27: no call of get, set, clear, cleanup_expired, get_stats or
\* reset_stats ends by raising, whatever max_size the cache was built with.
C27_NeverRaises == "raised" \notin DOMAIN last

\* C30: cleanup_expired keeps the entries it leaves in the order they had,
\* and leaves hits, misses and evictions as they were.
C30_CleanupKeepsOrderAndCounters ==
    [][Call("cleanup_expired") =>
        /\ UNCHANGED <<hits, misses, evictions>>
        /\ \A i, j \in 1..Len(cache') :
               i < j => IndexOf(cache, cache'[i].key)
                            < IndexOf(cache, cache'[j].key)]_vars

\* A cleanup has removed at least one entry and left at least two.
C30_Witness ==
    /\ last.op = "cleanup_expired"
    /\ last.result >= 1
    /\ Len(cache) >= 2

\* The tasks whose _do_translate has ended.
Ended == {t \in Tasks : pc[t].at = "idle" /\ "outcome" \in DOMAIN pc[t]}

\* The key that the _do_translate of a task at p uses in the cache.
FlowKey(p) ==
    IF p.at = "locked" THEN make_key(p.call.text, p.call.target_language)
    ELSE make_key(p.text, p.target_language)

\* Task t is in a _do_translate that holds the lock for its get or set.
InFlowCall(t) == pc[t].at = "locked" /\ pc[t].flow

\* C21: a _do_translate whose translate call fails makes no set: the step in
\* which the failure arrives changes neither the store, the recency order
\* nor a counter; when the get has returned None its key is not stored; and
\* while the task waits, the key enters the store only by the set of
\* another task.
C21_FailureStoresNothing ==
    [][\A t \in Tasks :
        /\ pc[t].at = "translate" /\ pc'[t].at = "idle"
               => /\ pc'[t].outcome.kind # "text"
                  /\ pc'[t].sets = 0
                  /\ UNCHANGED <<cache, touch, hits, misses, evictions>>
        /\ InFlowCall(t) /\ pc[t].call.op = "get" /\ pc'[t].at # "locked"
            /\ last'.result = None
               => /\ ~Has(cache', FlowKey(pc[t]))
                  /\ evictions' = evictions
                  /\ pc'[t].at = "idle" => pc'[t].sets = 0
        /\ pc[t].at = "translate" /\ pc'[t].at = "translate"
            /\ ~Has(cache, FlowKey(pc[t])) /\ Has(cache', FlowKey(pc[t]))
               => \E u \in Tasks \ {t} :
                      /\ pc[u].at = "locked" /\ pc[u].call.op = "set"
                      /\ FlowKey(pc[u]) = FlowKey(pc[t])
                      /\ Call("set")]_vars

\* A translate call has timed out in a cache that holds an entry.
C21_Witness ==
    \E t \in Ended :
        /\ pc[t].outcome.kind = "TimeoutError"
        /\ pc[t].sets = 0
        /\ Len(cache) >= 1

\* C22: a translator.translate call ends with a text, LanguageNotFoundError,
\* TranslationAPIError or TimeoutError; an outbound call that exceeds the
\* timeout gives TimeoutError, one that raises gives TranslationAPIError,
\* one that returns gives its text, and without an outbound call the
\* language was not found; _do_translate ends the same way.
C22_FourOutcomes ==
    \A t \in Ended : pc[t].calls >= 1 =>
        LET kind == pc[t].outcome.kind
            event == pc[t].event
        IN  /\ kind \in {"text", "LanguageNotFoundError",
                          "TranslationAPIError", "TimeoutError"}
            /\ kind = "TimeoutError" <=> event = Some([kind |-> "times_out"])
            /\ kind = "TranslationAPIError" <=> event = Some([kind |-> "raises"])
            /\ kind = "LanguageNotFoundError" <=> event = None
            /\ kind = "text" <=> (event # None /\ event[1].kind = "returns")
            /\ kind = "text" => event[1].text = pc[t].outcome.text

\* One task ended with a timeout and the other with a service error.
C22_Witness ==
    \E t, u \in Ended :
        /\ pc[t].outcome.kind = "TimeoutError"
        /\ pc[u].outcome.kind = "TranslationAPIError"

\* C23: every get and set of _do_translate uses the key made of the
\* normalized target language and the hash of the cleaned text, so that a
\* get finds what was stored for a language input with the same code.
C23_KeyFromNormalizedLanguage ==
    [][\A t \in Tasks :
        InFlowCall(t) /\ pc'[t].at # "locked"
        /\ normalize_language(pc[t].call.target_language) # None
           => /\ last'.key =
                    make_key(pc[t].call.text,
                             normalize_language(pc[t].call.target_language)[1])
              /\ (/\ pc[t].call.op = "get"
                  /\ \E i \in 1..Len(cache) :
                        /\ cache[i].key[2] = Sha256(pc[t].call.text)
                        /\ normalize_language(cache[i].key[1])
                             = normalize_language(pc[t].call.target_language)
                        /\ ~is_expired(cache[i].entry, now))
                 => last'.branch = "hit"]_vars

\* C28: a _do_translate that has ended made no translate call and no set
\* when its get returned an entry, and exactly one translate call when its
\* get returned None; no _do_translate under way has made more than one.
C28_AtMostOneTranslateCall ==
    /\ \A t \in Ended :
           /\ pc[t].get = "hit" => pc[t].calls = 0 /\ pc[t].sets = 0
           /\ pc[t].get = "miss" => pc[t].calls = 1
    /\ \A t \in Tasks : pc[t].at \in {"locked", "translate"}
           => pc[t].ctx.calls <= 1

\* One task ended on a cached text, the other after a translate call that
\* failed.
C28_Witness ==
    \E t, u \in Ended :
        /\ pc[t].get = "hit"
        /\ pc[u].get = "miss" /\ pc[u].outcome.kind # "text"

C32_NormalizeIdempotent ==
    last.op = "normalize_language" /\ last.result # None =>
        /\ normalize_language(last.result[1]) = last.result
        /\ \A event \in OutboundEvents :
               TranslateOutcome(last.result[1], event).kind
                   # "LanguageNotFoundError"

\* A display name, and an input of the Chinese rules, have been normalized.
C32_Witness ==
    /\ last.op = "normalize_language"
    /\ last.language \in {"English", "zh"}
    /\ last.result # None
    /\ last.result[1] # Strip(Lower(last.language))

\* The texts that are empty, only whitespace, or empty once the custom
\* emojis are taken out.
NothingToTranslate == {"", "  ", "<:wave:1>"}

\* C33: a _do_translate called with a text that is empty, only whitespace
\* or only custom emojis ends with None in that step, with no get, no set
\* and no translate call: store, recency order, counters and lock are
\* unchanged.
C33_BlankTextTouchesNothing ==
    [][\A t \in Tasks, text \in NothingToTranslate, l \in FlowLanguages :
        DoTranslate(t, text, l) =>
            /\ UNCHANGED <<cache, touch, hits, misses, evictions, last, ops,
                           gets, lock>>
            /\ pc'[t].at = "idle"
            /\ pc'[t].get = "none" /\ pc'[t].calls = 0 /\ pc'[t].sets = 0
            /\ pc'[t].outcome.kind = "none"]_vars

\* A _do_translate has ended without a get while the store holds an entry
\* and the other task waits on the translation.
C33_Witness ==
    \E t, u \in Tasks :
        /\ pc[t].at = "idle" /\ "get" \in DOMAIN pc[t] /\ pc[t].get = "none"
        /\ pc[u].at = "translate"
        /\ Len(cache) >= 1

\* The one key of SpecRace.
RaceKey == make_key("Hola", "en")

\* C31: two tasks that run _do_translate for the same cleaned text and
\* language on a cache without an entry for it both get None and both call
\* translator.translate: while both wait, misses is 2 and the key is not
\* stored; when both have ended, each has made one translate call and one
\* set, misses is 2, and the store holds one entry for the key, with the
\* text of the set that ran last.
C31_BothMissLastSetWins ==
    \A t, u \in Tasks : t # u =>
        /\ pc[t].at = "translate" /\ pc[u].at = "translate"
               => /\ pc[t].ctx.calls = 1 /\ pc[u].ctx.calls = 1
                  /\ misses = 2
                  /\ ~Has(cache, RaceKey)
        /\ t \in Ended /\ u \in Ended /\ pc[t].get = "miss" /\ pc[u].get = "miss"
               => /\ pc[t].calls = 1 /\ pc[u].calls = 1
                  /\ pc[t].sets = 1 /\ pc[u].sets = 1
                  /\ misses = 2
                  /\ Cardinality({i \in 1..Len(cache) :
                                      cache[i].key = RaceKey}) = 1
                  /\ last.op = "set"
                  /\ Lookup(cache, RaceKey).translated_text
                         = last.translated_text
                  /\ last.translated_text
                         \in {pc[t].outcome.text, pc[u].outcome.text}

\* Both tasks got None, the service returned two different texts, and both
\* sets are done.
C31_Witness ==
    \E t, u \in Ended :
        /\ t # u
        /\ pc[t].get = "miss" /\ pc[u].get = "miss"
        /\ pc[t].outcome.text # pc[u].outcome.text

====
